---- MODULE Spec2Model ----
(***************************************************************************)
(* Tariff / bill computation engine (src/tariff_calculator.py) and the     *)
(* timeseries loader it calls (src/loadOEDIData.py).                       *)
(*                                                                         *)
(* Conventions of the model                                                *)
(*  - A timestamp is the number of 15-minute intervals since               *)
(*    2018-01-01 00:00 (a Monday); earlier instants are negative.          *)
(*  - A price is an integer number of 1e-5 $/kWh, so 0.12673 is 12673.     *)
(*    Consumption is an integer number of kWh; a cost is their product.    *)
(*    Floating-point rounding is not modelled.                             *)
(*  - NaN is the undefined float; a product with it is NaN, a pandas      *)
(*    group sum skips it.                                                  *)
(*  - Sequences are 1-based; the code's 0-based position p is p + 1 here.  *)
(***************************************************************************)
EXTENDS Integers, Sequences, FiniteSets, TLC

VARIABLES
    ts_df,        \* the batch handed to a pricing / billing function
    tou_args,     \* keyword arguments of price_tou_simple for this behaviour
    called,       \* name of the function applied last ("none" before any)
    prices,       \* the Series a pricing function returned
    tou_info,     \* locals of the last price_tou_simple call (blocks, trials)
    tou_log,      \* the price sequences returned by the calls so far
    rng_left,     \* the generator object the last call left behind
    rtp_files,    \* the price sources on disk: csv name -> rows, or Missing
    rtp_data,     \* PriceDataCache._rtp_data of the module-level _price_cache
    reads,        \* how many times pd.read_csv read a price source
    oplog,        \* the cache operations completed so far, in call order
    bills,        \* what each billing call returned: call name -> result
    ts_index,     \* the building index handed to compute_bills_chunked
    parquet,      \* the timeseries files on disk: file_path -> rows
    chunk_size,   \* chunk_size of the run in progress
    pc,           \* where compute_bills_chunked stands: "idle" or "loop"
    start,        \* the loop variable of the chunk loop (0-based)
    all_chunks,   \* the per-chunk bill tables accumulated by the run
    runs,         \* outcome of the finished run, per chunk_size
    loads,        \* the sub_idx slices a run handed to the loader, per chunk_size
    wpc,          \* per worker thread: the line of get_rtp_data it stands at
    wloc,         \* per worker thread: the locals of its get_rtp_data call
    wret          \* per worker thread: what its last get_rtp_data returned

pricing_vars == <<ts_df, tou_args, called, prices, tou_info, tou_log, rng_left>>
cache_vars == <<rtp_files, rtp_data, reads, oplog>>
billing_vars == <<bills>>
driver_vars == <<ts_index, parquet, chunk_size, pc, start, all_chunks, runs, loads>>
worker_vars == <<wpc, wloc, wret>>
vars == <<pricing_vars, cache_vars, billing_vars, driver_vars, worker_vars>>

----------------------------------------------------------------------------
(* Bounds of the model *)

\* longest batch of records drawn for a pricing function
MaxLen == 2
\* longest batch drawn for price_tou_simple
MaxTouLen == 5
\* calls of price_tou_simple per behaviour
MaxTouCalls == 2
\* cache operations per behaviour
MaxOps == 4
\* calls of price_dynamic_stub / clear per behaviour
MaxDynOps == 2
\* rows of a drawn price source
MaxTable == 2
\* longest building index drawn for compute_bills_chunked
MaxIndex == 3
\* longest run of consecutive intervals drawn for price_tou_simple
MaxRunLen == 33
\* worker threads sharing the module-level cache
NumWorkers == 2
\* cache operations the workers start per behaviour
MaxWorkerOps == 4
\* most records of one building in a batch of two buildings
MaxBldgLen == 3

----------------------------------------------------------------------------
(* Generic helpers *)

NaN == -999999999

Min(a, b) == IF a <= b THEN a ELSE b

RECURSIVE SeqsUpTo(_, _)
\* all sequences over S of length 0..n
SeqsUpTo(S, n) ==
    IF n = 0 THEN {<<>>}
    ELSE LET shorter == SeqsUpTo(S, n - 1)
         IN  shorter \cup {Append(s, x) : s \in {t \in shorter : Len(t) = n - 1}, x \in S}

\* a call that was not made / a run that was not started
NotCalled == [raised |-> FALSE, done |-> FALSE, rows |-> <<>>]

\* the calls of the bill aggregator: apply_tariff with each pricing function
\* and apply_all_tariffs
BillCalls == {"flat", "tou", "dynamic", "all"}

BillingIdle == bills = [c \in BillCalls |-> NotCalled]

DriverIdle ==
    /\ ts_index = <<>>
    /\ parquet = <<>>
    /\ chunk_size = 0
    /\ pc = "idle"
    /\ start = 0
    /\ all_chunks = <<>>
    /\ runs = <<>>
    /\ loads = <<>>

WorkersIdle ==
    /\ wpc = <<>>
    /\ wloc = <<>>
    /\ wret = <<>>

\* a batch row; the pricing functions read only some of the columns
Row(b, u, t, k) == [bldg_id |-> b, upgrade_id |-> u, timestamp |-> t, kwh_total |-> k]

----------------------------------------------------------------------------
(* Calendar: pd.Timestamp("YYYY-MM-DD"), .dt.hour, .dt.weekday *)

DaysInMonth(m) ==
    IF m = 2 THEN 28
    ELSE IF m \in {4, 6, 9, 11} THEN 30 ELSE 31

RECURSIVE DaysBeforeMonth(_)
DaysBeforeMonth(m) == IF m = 1 THEN 0 ELSE DaysBeforeMonth(m - 1) + DaysInMonth(m - 1)

\* 2017, 2018 and 2019 are all common years
DaysBeforeYear(y) == (y - 2018) * 365

\* midnight at the start of the given date
Timestamp(y, m, d) == (DaysBeforeYear(y) + DaysBeforeMonth(m) + (d - 1)) * 96

\* an instant of the given date: q quarter-hours after midnight
At(y, m, d, q) == Timestamp(y, m, d) + q

Hour(t) == (t \div 4) % 24

\* Monday = 0 ... Sunday = 6; 2018-01-01 was a Monday
Weekday(t) == (t \div 96) % 7

----------------------------------------------------------------------------
(* price_flat *)

RateJanApr == 12673
RateMayOct == 10870
RateNovDec == 13718

time_windows ==
    << [start |-> Timestamp(2018, 1, 1),  end |-> Timestamp(2018, 4, 30),  rate |-> RateJanApr],
       [start |-> Timestamp(2018, 5, 1),  end |-> Timestamp(2018, 10, 31), rate |-> RateMayOct],
       [start |-> Timestamp(2018, 11, 1), end |-> Timestamp(2018, 12, 31), rate |-> RateNovDec] >>

\* mask = (timestamps >= start_ts) & (timestamps <= end_ts): a closed window
WindowMaskClosed(w, t) == t >= w.start /\ t <= w.end

\* mask = (timestamps >= start_ts) & (timestamps < end_ts)
WindowMask(w, t) == t >= w.start /\ t < w.end

RECURSIVE FlatLoop(_, _, _)
\* the for loop over time_windows: prices[mask] = rate, window k .. last
FlatLoop(p, stamps, k) ==
    IF k > Len(time_windows) THEN p
    ELSE LET w == time_windows[k]
             q == [i \in 1..Len(p) |-> IF WindowMask(w, stamps[i]) THEN w.rate ELSE p[i]]
         IN  FlatLoop(q, stamps, k + 1)

price_flat(df) ==
    LET stamps == [i \in 1..Len(df) |-> df[i].timestamp]
        zeros  == [i \in 1..Len(df) |-> 0]
    IN  FlatLoop(zeros, stamps, 1)

----------------------------------------------------------------------------
(* PriceDataCache and price_dynamic_stub *)

\* self._rtp_data = None
None == [loaded |-> FALSE, curve |-> <<>>]

\* the content of rtp_files for a csv that does not exist on disk
Missing == <<[timestamp |-> NaN, RT_LMP_kWh |-> NaN]>>

\* every lookup finds the cache empty
AlwaysEmpty(c) == TRUE

\* self._rtp_data is None
CacheEmpty(c) == ~c.loaded

\* the row of a sorted frame that a forward fill assigns to instant t: the
\* last row whose timestamp is at or before t, 0 when there is none
LastAtOrBefore(frame, t) ==
    LET at == { k \in 1..Len(frame) : frame[k].timestamp <= t }
    IN  IF at = {} THEN 0 ELSE CHOOSE k \in at : \A j \in at : j <= k

\* rtp_df.set_index("timestamp").resample("15min").ffill(): one row per
\* 15-minute instant from the first to the last source row, forward filled
Resample(table) ==
    LET first == table[1].timestamp
        last  == table[Len(table)].timestamp
    IN  [g \in 1..(last - first + 1) |->
            [timestamp |-> first + g - 1,
             RT_LMP_kWh |-> table[LastAtOrBefore(table, first + g - 1)].RT_LMP_kWh]]

\* get_rtp_data with a fallback: a missing source yields an empty curve
\* that is cached and returned instead of an exception
get_rtp_data_fallback(cache, rtp_csv) ==
    IF CacheEmpty(cache)
    THEN LET rtp_df == [loaded |-> TRUE,
                        curve |-> IF rtp_files[rtp_csv] = Missing THEN <<>>
                                  ELSE Resample(rtp_files[rtp_csv])]
         IN  [raised |-> FALSE, ret |-> rtp_df, cache |-> rtp_df, read |-> TRUE]
    ELSE [raised |-> FALSE, ret |-> cache, cache |-> cache, read |-> FALSE]

\* get_rtp_data(rtp_csv): what it returns or raises, the cache it leaves, and
\* whether it read the source
get_rtp_data(cache, rtp_csv) ==
    IF CacheEmpty(cache)
    THEN IF rtp_files[rtp_csv] = Missing
         THEN [raised |-> TRUE, ret |-> None, cache |-> cache, read |-> TRUE]
         ELSE LET rtp_df == [loaded |-> TRUE, curve |-> Resample(rtp_files[rtp_csv])]
              IN  [raised |-> FALSE, ret |-> rtp_df, cache |-> rtp_df, read |-> TRUE]
    ELSE [raised |-> FALSE, ret |-> cache, cache |-> cache, read |-> FALSE]

\* clear(): self._rtp_data = None
clear(cache) == None

\* reindex without method="ffill": only exact index matches get a value
ReindexExact(curve, t) ==
    IF \E k \in 1..Len(curve) : curve[k].timestamp = t
    THEN curve[CHOOSE k \in 1..Len(curve) : curve[k].timestamp = t].RT_LMP_kWh
    ELSE NaN

\* rtp_df.reindex(timestamps, method="ffill")["RT_LMP_kWh"] at one timestamp
Reindex(curve, t) ==
    LET k == LastAtOrBefore(curve, t)
    IN  IF k = 0 THEN NaN ELSE curve[k].RT_LMP_kWh

\* price_dynamic_stub(ts_df, rtp_csv)
price_dynamic_stub(df, cache, rtp_csv) ==
    LET g == get_rtp_data(cache, rtp_csv)
    IN  [raised |-> g.raised, cache |-> g.cache, read |-> g.read,
         prices |-> IF g.raised THEN <<>>
                    ELSE [i \in 1..Len(df) |-> Reindex(g.ret.curve, df[i].timestamp)]]

\* the two csv names used: the default of rtp_csv and another file
DefaultCsv == "RT_LMP_kWh.csv"
OtherCsv == "other.csv"
CsvNames == {DefaultCsv, OtherCsv}

\* hourly instants of source rows (load_rtp.py writes one row per hour)
TableTimes == { At(2018, 1, 1, 0), At(2018, 1, 1, 4), At(2018, 1, 1, 12) }
TablePrices == { 3000, 5000 }

\* price sources: 1..MaxTable rows, strictly increasing hourly timestamps
Tables ==
    { s \in SeqsUpTo([timestamp : TableTimes, RT_LMP_kWh : TablePrices], MaxTable) :
        /\ Len(s) >= 1
        /\ \A k \in 1..(Len(s) - 1) : s[k].timestamp < s[k + 1].timestamp }

OtherTable == <<[timestamp |-> At(2018, 1, 1, 0), RT_LMP_kWh |-> 7000]>>

CacheIdle ==
    /\ rtp_files = [c \in CsvNames |-> IF c = DefaultCsv
                                       THEN <<[timestamp |-> At(2018, 1, 1, 0), RT_LMP_kWh |-> 3000],
                                              [timestamp |-> At(2018, 1, 1, 4), RT_LMP_kWh |-> 5000]>>
                                       ELSE OtherTable]
    /\ rtp_data = None
    /\ reads = 0
    /\ oplog = <<>>

----------------------------------------------------------------------------
(* Specification SpecFlat: price_flat applied to a drawn batch *)

\* instants around every window edge, inside every window, and outside 2018
FlatStamps ==
    { At(2017, 7, 4, 0),   At(2017, 12, 31, 95), At(2018, 1, 1, 0),
      At(2018, 3, 1, 0),   At(2018, 4, 29, 95),  At(2018, 4, 30, 0),
      At(2018, 5, 1, 0),   At(2018, 7, 4, 48),   At(2018, 10, 31, 0),
      At(2018, 11, 1, 0),  At(2018, 12, 25, 40), At(2018, 12, 30, 95),
      At(2018, 12, 31, 0), At(2019, 1, 1, 0),    At(2019, 3, 1, 0) }

FlatBatches == { [i \in 1..Len(s) |-> Row(1, 0, s[i], 1)] : s \in SeqsUpTo(FlatStamps, MaxLen) }

\* the defaults of price_tou_simple: peak_hours=(8, 20), conservation_hours=8
\* (64 eighths of an hour), random_seed=100
TouDefaults == [peak_hours |-> <<8, 20>>, conservation_hours |-> 64, random_seed |-> 100]

TouIdle ==
    /\ tou_args = TouDefaults
    /\ tou_info = <<>>
    /\ tou_log = <<>>
    /\ rng_left = NaN

InitFlat ==
    /\ ts_df \in FlatBatches
    /\ called = "none"
    /\ prices = <<>>
    /\ TouIdle
    /\ CacheIdle
    /\ BillingIdle
    /\ WorkersIdle
    /\ DriverIdle

PriceFlatCall ==
    /\ called = "none"
    /\ prices' = price_flat(ts_df)
    /\ called' = "price_flat"
    /\ UNCHANGED <<ts_df, tou_args, tou_info, tou_log, rng_left, cache_vars, billing_vars, driver_vars, worker_vars>>

NextFlat == PriceFlatCall

SpecFlat == InitFlat /\ [][NextFlat]_vars

\* the calendar day (midnight) an instant falls on
DayOf(t) == (t \div 96) * 96

FlatCoversYear ==
    called = "price_flat" =>
        \A i \in 1..Len(ts_df) :
            LET t == ts_df[i].timestamp
            IN  (Timestamp(2018, 1, 1) <= t /\ t < Timestamp(2019, 1, 1)) =>
                    prices[i] = IF t < Timestamp(2018, 5, 1) THEN RateJanApr
                                ELSE IF t < Timestamp(2018, 11, 1) THEN RateMayOct
                                ELSE RateNovDec

\* the days inside 2018 that no window contains: the end date of each window
UncoveredDays == { Timestamp(2018, 4, 30), Timestamp(2018, 10, 31), Timestamp(2018, 12, 31) }

\* what does hold: an interval of 2018 is priced 0 exactly when it falls on
\* the end date of a window, and otherwise gets the rate of its season
FlatCoversYearButEndDates ==
    called = "price_flat" =>
        \A i \in 1..Len(ts_df) :
            LET t == ts_df[i].timestamp
            IN  (Timestamp(2018, 1, 1) <= t /\ t < Timestamp(2019, 1, 1)) =>
                    prices[i] = IF DayOf(t) \in UncoveredDays THEN 0
                                ELSE IF t < Timestamp(2018, 5, 1) THEN RateJanApr
                                ELSE IF t < Timestamp(2018, 11, 1) THEN RateMayOct
                                ELSE RateNovDec

----------------------------------------------------------------------------
(* price_tou_simple *)

offpeak_rate == 9910
peak_rate == 12110
conservation_rate == 61370
\* the literal 30 of num_trials = min(30, len(possible_starts))
TrialCap == 30

\* is_peak = (hours >= start) & (hours < end): the weekend is not excluded
IsPeakAnyDay(t, peak_hours) ==
    /\ Hour(t) >= peak_hours[1]
    /\ Hour(t) < peak_hours[2]

\* is_peak = (hours >= start) & (hours < end) & (~is_weekend)
IsPeak(t, peak_hours) ==
    /\ Hour(t) >= peak_hours[1]
    /\ Hour(t) < peak_hours[2]
    /\ ~(Weekday(t) >= 5)

\* int(np.round(conservation_hours * 4)).  The model passes conservation_hours
\* in eighths of an hour (the default 8 hours is 64), so the product is h8 / 2
\* and np.round rounds a half to the even neighbour.
NIntervals(h8) ==
    LET k == h8 \div 2
    IN  IF h8 % 2 = 0 THEN k
        ELSE IF k % 2 = 0 THEN k ELSE k + 1

\* only the start of the block is looked up in peak_set
StartInPeak(is_peak, idx, n) == is_peak[idx]

\* all((idx + k) in peak_set for k in range(n_intervals))
BlockInPeak(is_peak, idx, n) == \A k \in 0..(n - 1) : is_peak[idx + k]

\* possible_starts before the shuffle: peak positions, ascending, whose whole
\* block lies in the sequence (idx <= max_start) and in peak hours
PossibleStarts(is_peak, n) ==
    LET len       == Len(is_peak)
        max_start == len - n + 1
        Keep(idx) == is_peak[idx] /\ idx <= max_start /\ BlockInPeak(is_peak, idx, n)
    IN  SelectSeq([i \in 1..len |-> i], Keep)

\* numpy's bit generator, abstracted to a 16-bit linear congruential generator
RngNext(s) == (s * 25173 + 13849) % 65536

SeedState(seed) == RngNext((seed * 40503 + 1) % 65536)

\* a generator kept from the previous call is used again
shared_rng(random_seed) == IF rng_left = NaN THEN SeedState(random_seed) ELSE rng_left

\* rng = np.random.default_rng(random_seed): a fresh generator in every call
default_rng(random_seed) == SeedState(random_seed)

RECURSIVE ShuffleFrom(_, _, _)
\* Generator.shuffle: for i = n-1 .. 1 (0-based): j drawn in [0, i]; swap
ShuffleFrom(x, i, s) ==
    IF i < 2 THEN [list |-> x, rng |-> s]
    ELSE LET s2 == RngNext(s)
             j  == 1 + ((s2 \div 256) % i)
             y  == [x EXCEPT ![i] = x[j], ![j] = x[i]]
         IN  ShuffleFrom(y, i - 1, s2)

Shuffle(x, s) == ShuffleFrom(x, Len(x), s)

\* the overlap test is skipped: every candidate is accepted
NeverOverlaps(block, used) == TRUE

\* not any(i in used for i in block)
BlockFree(block, used) == block \cap used = {}

RECURSIVE GreedyWalkStopAtOverlap(_, _, _, _)
\* the walk with a break at the first overlapping candidate
GreedyWalkStopAtOverlap(starts, k, n, w) ==
    IF k > Len(starts) \/ w.placed >= w.num_trials THEN w
    ELSE LET st    == starts[k]
             block == st..(st + n - 1)
             seen  == [w EXCEPT !.considered = w.considered + 1]
         IN  IF BlockFree(block, w.used)
             THEN GreedyWalkStopAtOverlap(starts, k + 1, n,
                      [seen EXCEPT
                          !.prices = [i \in 1..Len(w.prices) |->
                                         IF i \in block THEN conservation_rate ELSE w.prices[i]],
                          !.used = w.used \cup block,
                          !.placed = w.placed + 1,
                          !.accepted = Append(w.accepted, st)])
             ELSE seen

RECURSIVE GreedyWalk(_, _, _, _)
\* for s in possible_starts: ... ; w carries the loop's locals
GreedyWalk(starts, k, n, w) ==
    IF k > Len(starts) \/ w.placed >= w.num_trials THEN w
    ELSE LET st    == starts[k]
             block == st..(st + n - 1)
             seen  == [w EXCEPT !.considered = w.considered + 1]
         IN  IF BlockFree(block, w.used)
             THEN GreedyWalk(starts, k + 1, n,
                      [seen EXCEPT
                          !.prices = [i \in 1..Len(w.prices) |->
                                         IF i \in block THEN conservation_rate ELSE w.prices[i]],
                          !.used = w.used \cup block,
                          !.placed = w.placed + 1,
                          !.accepted = Append(w.accepted, st)])
             ELSE GreedyWalk(starts, k + 1, n, seen)

\* the whole function; besides the returned prices the record keeps the locals
price_tou_simple(df, args) ==
    LET is_peak  == [i \in 1..Len(df) |-> IsPeak(df[i].timestamp, args.peak_hours)]
        base     == [i \in 1..Len(df) |-> IF is_peak[i] THEN peak_rate ELSE offpeak_rate]
        n        == NIntervals(args.conservation_hours)
        npeak    == Cardinality({i \in 1..Len(df) : is_peak[i]})
        skip     == [prices |-> base, n_intervals |-> n, is_peak |-> is_peak,
                     possible_starts |-> <<>>, num_trials |-> 0, used |-> {},
                     placed |-> 0, accepted |-> <<>>, considered |-> 0, rng |-> NaN]
    IN  IF ~(npeak > 0 /\ n > 0) THEN skip
        ELSE LET cand == PossibleStarts(is_peak, n)
             IN  IF cand = <<>> THEN skip
                 ELSE LET sh == Shuffle(cand, default_rng(args.random_seed))
                      IN  GreedyWalk(sh.list, 1, n,
                              [skip EXCEPT !.possible_starts = sh.list,
                                           !.num_trials = Min(TrialCap, Len(cand)),
                                           !.rng = sh.rng])

----------------------------------------------------------------------------
(* Specification SpecTou: price_tou_simple called repeatedly on a drawn batch *)

\* Monday 10:00, Monday 20:00 (peak only when the window reaches 24) and
\* Saturday 10:00 (never peak)
TouStamps == { At(2018, 1, 1, 40), At(2018, 1, 1, 80), At(2018, 1, 6, 40) }

TouBatches == { [i \in 1..Len(s) |-> Row(1, 0, s[i], 1)] : s \in SeqsUpTo(TouStamps, MaxTouLen) }

\* conservation_hours in eighths of an hour: 0.125, 0.25, 0.375, 0.75 hours
TouArgs ==
    [peak_hours : {<<8, 20>>, <<0, 24>>}, conservation_hours : {1, 2, 3, 6}, random_seed : {100, 7}]

InitTou ==
    /\ ts_df \in TouBatches
    /\ tou_args \in TouArgs
    /\ called = "none"
    /\ prices = <<>>
    /\ tou_info = <<>>
    /\ tou_log = <<>>
    /\ rng_left = NaN
    /\ CacheIdle
    /\ BillingIdle
    /\ WorkersIdle
    /\ DriverIdle

PriceTouCall ==
    /\ Len(tou_log) < MaxTouCalls
    /\ LET r == price_tou_simple(ts_df, tou_args)
       IN  /\ prices' = r.prices
           /\ tou_info' = r
           /\ tou_log' = Append(tou_log, r.prices)
           /\ rng_left' = IF r.rng = NaN THEN rng_left ELSE r.rng
    /\ called' = "price_tou_simple"
    /\ UNCHANGED <<ts_df, tou_args, cache_vars, billing_vars, driver_vars, worker_vars>>

NextTou == PriceTouCall

SpecTou == InitTou /\ [][NextTou]_vars

\* positions the returned Series prices at conservation_rate
ConservationPositions == { i \in 1..Len(prices) : prices[i] = conservation_rate }

\* the positions of the block accepted at start st
AcceptedBlock(st) == st..(st + tou_info.n_intervals - 1)

AcceptedStarts == { tou_info.accepted[k] : k \in 1..Len(tou_info.accepted) }

\* C3: the positions priced at conservation_rate are exactly the union of the
\* accepted blocks; accepted blocks are pairwise disjoint, each is a run of
\* exactly n_intervals = conservation_hours * 4 consecutive positions inside
\* the sequence, and each of its positions is a peak position (a weekday with
\* the hour in [start, end)).  No partial block is marked.  conservation_hours
\* is held in eighths of an hour, so twice the block length is within one of
\* it; every other position keeps its peak or off-peak base price.
TouBlockStructure ==
    called = "price_tou_simple" =>
        /\ ConservationPositions = UNION { AcceptedBlock(st) : st \in AcceptedStarts }
        /\ Len(tou_info.accepted) = Cardinality(AcceptedStarts)
        /\ \A a, b \in AcceptedStarts : a # b => AcceptedBlock(a) \cap AcceptedBlock(b) = {}
        /\ \A st \in AcceptedStarts :
             /\ AcceptedBlock(st) \subseteq 1..Len(ts_df)
             /\ 2 * Cardinality(AcceptedBlock(st)) \in
                    { tou_args.conservation_hours - 1, tou_args.conservation_hours,
                      tou_args.conservation_hours + 1 }
             /\ Cardinality(AcceptedBlock(st)) = tou_info.n_intervals
             /\ \A i \in AcceptedBlock(st) :
                  LET t == ts_df[i].timestamp
                  IN  /\ Weekday(t) \in 0..4
                      /\ tou_args.peak_hours[1] <= Hour(t)
                      /\ Hour(t) < tou_args.peak_hours[2]
        /\ \A i \in 1..Len(prices) \ ConservationPositions :
             prices[i] \in {peak_rate, offpeak_rate}

\* two disjoint blocks of two intervals were placed in a batch that also
\* holds non-peak records
TouBlockStructureWitness ==
    /\ called = "price_tou_simple"
    /\ tou_info.n_intervals = 2
    /\ Len(tou_info.accepted) = 2
    /\ Cardinality(ConservationPositions) = 4
    /\ \E i \in 1..Len(prices) : prices[i] = offpeak_rate

\* C4: the number of intervals priced at conservation_rate is at most the
\* requested target conservation_hours * 4.
TouConservationTotal ==
    called = "price_tou_simple" =>
        Cardinality(ConservationPositions) <= tou_info.n_intervals

InWindow(i) ==
    LET t == ts_df[i].timestamp
    IN  /\ Weekday(t) \in 0..4
        /\ tou_args.peak_hours[1] <= Hour(t)
        /\ Hour(t) < tou_args.peak_hours[2]

\* a block of len consecutive positions starting at idx, all in the window
QualifyingBlock(idx, len) ==
    /\ idx + len - 1 <= Len(ts_df)
    /\ \A i \in idx..(idx + len - 1) : InWindow(i)

\* the length of a block, from the argument: round-half-even of hours * 4
BlockLen ==
    CHOOSE len \in 0..tou_args.conservation_hours :
        /\ 2 * len \in { tou_args.conservation_hours - 1, tou_args.conservation_hours,
                          tou_args.conservation_hours + 1 }
        /\ (2 * len # tou_args.conservation_hours) => len % 2 = 0

\* C18: price_tou_simple returns a price for every record whatever the
\* shortage; when its walk ends with the candidate list exhausted (fewer
\* blocks accepted than the cap, or every candidate considered) every
\* candidate that was not accepted overlaps an accepted block; with no peak
\* record, no qualifying block or a block length of 0 the output is the base
\* peak / off-peak assignment.
TouShortage ==
    called = "price_tou_simple" =>
        /\ Len(prices) = Len(ts_df)
        /\ ( \/ Len(tou_info.accepted) < Min(30, Len(tou_info.possible_starts))
             \/ tou_info.considered = Len(tou_info.possible_starts) )
           => \A idx \in 1..Len(ts_df) :
                  (BlockLen > 0 /\ QualifyingBlock(idx, BlockLen) /\ idx \notin AcceptedStarts) =>
                      \E a \in AcceptedStarts :
                          (idx..(idx + BlockLen - 1)) \cap AcceptedBlock(a) # {}
        /\ ( \/ BlockLen = 0
             \/ \A i \in 1..Len(ts_df) : ~InWindow(i)
             \/ \A idx \in 1..Len(ts_df) : ~QualifyingBlock(idx, BlockLen) )
           => \A i \in 1..Len(ts_df) :
                  prices[i] = IF InWindow(i) THEN peak_rate ELSE offpeak_rate

\* the walk went through the whole list, placed a block and rejected an
\* overlapping candidate
TouShortageWitness ==
    /\ called = "price_tou_simple"
    /\ tou_info.considered = Len(tou_info.possible_starts)
    /\ Len(tou_info.accepted) >= 1
    /\ Len(tou_info.accepted) < Len(tou_info.possible_starts)
    /\ Len(tou_info.accepted) < Len(tou_info.possible_starts)
    /\ rng_left # NaN

\* C11: in the output of price_tou_simple every record on a Saturday or
\* Sunday, or with its hour outside [start_hour, end_hour), is priced exactly
\* offpeak_rate, and every weekday record with its hour in
\* [start_hour, end_hour) is priced peak_rate or conservation_rate.
TouBaseAssignment ==
    called = "price_tou_simple" =>
        /\ Len(prices) = Len(ts_df)
        /\ \A i \in 1..Len(ts_df) :
             LET t       == ts_df[i].timestamp
                 weekend == Weekday(t) \in {5, 6}
                 inhours == tou_args.peak_hours[1] <= Hour(t) /\ Hour(t) < tou_args.peak_hours[2]
             IN  IF weekend \/ ~inhours
                 THEN prices[i] = offpeak_rate
                 ELSE prices[i] \in {peak_rate, conservation_rate}

\* a batch with a Saturday 10:00 record priced off-peak, a weekday peak
\* record left at peak_rate and a weekday peak record in a conservation block
TouBaseAssignmentWitness ==
    /\ called = "price_tou_simple"
    /\ \E i, j, k \in 1..Len(ts_df) :
         /\ Weekday(ts_df[i].timestamp) = 5 /\ Hour(ts_df[i].timestamp) = 10
         /\ prices[i] = offpeak_rate
         /\ prices[j] = peak_rate
         /\ prices[k] = conservation_rate

----------------------------------------------------------------------------
(* Specification SpecTouRun: price_tou_simple on one building's consecutive
   15-minute records, long enough for more than 30 candidate starts *)

\* the lengths drawn: a few below, at and above the cap of 30 blocks
RunLens == (MaxRunLen - 4)..MaxRunLen

\* consecutive intervals from Monday 2018-01-01 08:00 on (all peak under both
\* windows drawn) or from Saturday 2018-01-06 08:00 on (none peak)
RunStarts == { At(2018, 1, 1, 32), At(2018, 1, 6, 32) }

RunBatches == { [i \in 1..len |-> Row(1, 0, t0 + i - 1, 1)] : len \in RunLens, t0 \in RunStarts }

InitTouRun ==
    /\ ts_df \in RunBatches
    /\ tou_args \in TouArgs
    /\ called = "none"
    /\ prices = <<>>
    /\ tou_info = <<>>
    /\ tou_log = <<>>
    /\ rng_left = NaN
    /\ CacheIdle
    /\ BillingIdle
    /\ WorkersIdle
    /\ DriverIdle

SpecTouRun == InitTouRun /\ [][NextTou]_vars

\* 1-based place of a start in the shuffled candidate list
PlaceOf(st) == CHOOSE k \in 1..Len(tou_info.possible_starts) : tou_info.possible_starts[k] = st

\* C17: the greedy walk of price_tou_simple stops once 30 candidates of the
\* shuffled list have been considered, accepted or rejected, or the list is
\* exhausted, whichever comes first; no candidate after the 30th is examined
\* or accepted.
TouTrialLimit ==
    called = "price_tou_simple" =>
        /\ tou_info.considered = Min(30, Len(tou_info.possible_starts))
        /\ \A st \in AcceptedStarts : PlaceOf(st) <= 30

\* what the loop does bound: the number of accepted blocks, by
\* num_trials = min(30, len(possible_starts)); it stops at that number of
\* accepted blocks or at the end of the list
TrialCapOnAccepted ==
    called = "price_tou_simple" =>
        /\ tou_info.num_trials = Min(30, Len(tou_info.possible_starts))
        /\ Len(tou_info.accepted) <= tou_info.num_trials
        /\ \/ tou_info.considered = Len(tou_info.possible_starts)
           \/ Len(tou_info.accepted) = tou_info.num_trials

----------------------------------------------------------------------------
(* Specification SpecCache: sequential calls on the module-level cache *)

PricingIdle ==
    /\ ts_df = <<>>
    /\ called = "none"
    /\ prices = <<>>
    /\ TouIdle

InitCache ==
    /\ rtp_files \in { f \in [CsvNames -> Tables \cup {Missing, OtherTable}] :
                          f[OtherCsv] \in {OtherTable, Missing} /\ f[DefaultCsv] # OtherTable }
    /\ rtp_data = None
    /\ reads = 0
    /\ oplog = <<>>
    /\ PricingIdle
    /\ BillingIdle
    /\ WorkersIdle
    /\ DriverIdle

Logged(op, csv, read, raised) == [op |-> op, csv |-> csv, read |-> read, raised |-> raised]

\* _price_cache.get_rtp_data(rtp_csv) from a caller
GetRtpData(csv) ==
    /\ Len(oplog) < MaxOps
    /\ LET g == get_rtp_data(rtp_data, csv)
       IN  /\ rtp_data' = g.cache
           /\ reads' = IF g.read THEN reads + 1 ELSE reads
           /\ oplog' = Append(oplog, Logged("get", csv, g.read, g.raised))
    /\ UNCHANGED <<rtp_files, pricing_vars, billing_vars, driver_vars, worker_vars>>

\* _price_cache.clear()
CacheClear ==
    /\ Len(oplog) < MaxOps
    /\ rtp_data' = clear(rtp_data)
    /\ oplog' = Append(oplog, Logged("clear", "", FALSE, FALSE))
    /\ UNCHANGED <<rtp_files, reads, pricing_vars, billing_vars, driver_vars, worker_vars>>

\* free_memory(): _price_cache.clear(), then gc.collect()
FreeMemory ==
    /\ Len(oplog) < MaxOps
    /\ rtp_data' = clear(rtp_data)
    /\ oplog' = Append(oplog, Logged("free_memory", "", FALSE, FALSE))
    /\ UNCHANGED <<rtp_files, reads, pricing_vars, billing_vars, driver_vars, worker_vars>>

NextCache ==
    \/ \E csv \in CsvNames : GetRtpData(csv)
    \/ CacheClear
    \/ FreeMemory

SpecCache == InitCache /\ [][NextCache]_vars

IsClear(e) == e.op \in {"clear", "free_memory"}

\* the k-th logged operation is a get with no earlier get since the start or
\* since the last clear
FirstGet(k) ==
    /\ oplog[k].op = "get"
    /\ \A j \in 1..(k - 1) :
         oplog[j].op = "get" => \E c \in (j + 1)..(k - 1) : IsClear(oplog[c])

\* C6: in a sequential run of get and clear calls whose loads all succeed,
\* the price source is read exactly once by the first get and exactly once by
\* the first get after each clear, and by no other get.
CacheIdempotence ==
    (\A k \in 1..Len(oplog) : ~oplog[k].raised) =>
        /\ \A k \in 1..Len(oplog) :
             oplog[k].op = "get" => (oplog[k].read <=> FirstGet(k))
        /\ reads = Cardinality({ k \in 1..Len(oplog) : FirstGet(k) })

\* get, get, clear, get with every load succeeding: two reads in all
CacheIdempotenceWitness ==
    /\ Len(oplog) = 4
    /\ oplog[1].op = "get" /\ oplog[2].op = "get"
    /\ oplog[3].op = "clear" /\ oplog[4].op = "get"
    /\ \A k \in 1..4 : ~oplog[k].raised
    /\ reads = 2
    /\ rtp_data.loaded

CacheKeyedBySource ==
    \A csv \in CsvNames :
        rtp_files[csv] # Missing =>
            LET g == get_rtp_data(rtp_data, csv)
            IN  /\ ~g.raised
                /\ g.ret.loaded
                /\ g.ret.curve = Resample(rtp_files[csv])

\* with one file name in use the cached curve is the one of that file
SingleSourceCurve ==
    (\A k \in 1..Len(oplog) : oplog[k].op = "get" => oplog[k].csv = DefaultCsv) =>
        (rtp_files[DefaultCsv] # Missing =>
            get_rtp_data(rtp_data, DefaultCsv).ret.curve = Resample(rtp_files[DefaultCsv]))

----------------------------------------------------------------------------
(* Specification SpecDyn: price_dynamic_stub on a drawn batch and source *)

\* before the first source row, on source rows, between and after them
DynStamps ==
    { At(2017, 12, 31, 95), At(2018, 1, 1, 0), At(2018, 1, 1, 2),
      At(2018, 1, 1, 5), At(2018, 1, 1, 13) }

DynBatches == { [i \in 1..Len(s) |-> Row(1, 0, s[i], 1)] : s \in SeqsUpTo(DynStamps, MaxLen) }

InitDyn ==
    /\ ts_df \in DynBatches
    /\ called = "none"
    /\ prices = <<>>
    /\ TouIdle
    /\ rtp_files \in { f \in [CsvNames -> Tables \cup {OtherTable}] :
                          f[OtherCsv] = OtherTable /\ f[DefaultCsv] # OtherTable }
    /\ rtp_data = None
    /\ reads = 0
    /\ oplog = <<>>
    /\ BillingIdle
    /\ WorkersIdle
    /\ DriverIdle

\* price_dynamic_stub(ts_df) with the default rtp_csv
PriceDynamicCall ==
    /\ Len(oplog) < MaxDynOps
    /\ LET d == price_dynamic_stub(ts_df, rtp_data, DefaultCsv)
       IN  /\ rtp_data' = d.cache
           /\ reads' = IF d.read THEN reads + 1 ELSE reads
           /\ oplog' = Append(oplog, Logged("get", DefaultCsv, d.read, d.raised))
           /\ prices' = d.prices
           /\ called' = IF d.raised THEN "raised" ELSE "price_dynamic_stub"
    /\ UNCHANGED <<ts_df, tou_args, tou_info, tou_log, rng_left, rtp_files, billing_vars, driver_vars, worker_vars>>

\* free_memory() between two pricing calls
DynFreeMemory ==
    /\ Len(oplog) < MaxDynOps
    /\ rtp_data' = clear(rtp_data)
    /\ oplog' = Append(oplog, Logged("free_memory", "", FALSE, FALSE))
    /\ UNCHANGED <<rtp_files, reads, pricing_vars, billing_vars, driver_vars, worker_vars>>

NextDyn == PriceDynamicCall \/ DynFreeMemory

SpecDyn == InitDyn /\ [][NextDyn]_vars

\* C10: every record gets the price of the latest row of the sparse source
\* whose timestamp is at or before the record's timestamp (resampling to the
\* 15-minute grid and then aligning equals one forward fill from the source);
\* a record before the first source row gets NaN, and the call does not raise.
DynamicForwardFill ==
    called # "none" =>
        /\ called = "price_dynamic_stub"
        /\ Len(prices) = Len(ts_df)
        /\ \A i \in 1..Len(ts_df) :
             LET src    == rtp_files[DefaultCsv]
                 t      == ts_df[i].timestamp
                 before == { k \in 1..Len(src) : src[k].timestamp <= t }
             IN  IF before = {}
                 THEN prices[i] = NaN
                 ELSE \E k \in before :
                        /\ \A j \in before : src[j].timestamp <= src[k].timestamp
                        /\ prices[i] = src[k].RT_LMP_kWh
                        /\ prices[i] # NaN

\* a batch with a record before the first source row (NaN) and a record
\* after the last row of a two-row source (the last row's price)
DynamicForwardFillWitness ==
    /\ called = "price_dynamic_stub"
    /\ Len(rtp_files[DefaultCsv]) = 2
    /\ \E i, j \in 1..Len(ts_df) :
         /\ prices[i] = NaN
         /\ ts_df[j].timestamp > rtp_files[DefaultCsv][2].timestamp
         /\ prices[j] = rtp_files[DefaultCsv][2].RT_LMP_kWh
         /\ rtp_files[DefaultCsv][1].RT_LMP_kWh # rtp_files[DefaultCsv][2].RT_LMP_kWh

----------------------------------------------------------------------------
(* apply_tariff and apply_all_tariffs *)

\* float multiplication: NaN propagates
Mul(a, b) == IF a = NaN \/ b = NaN THEN NaN ELSE a * b

RECURSIVE SumKeepNa(_, _)
\* the sum of f over the positions S in which a NaN addend makes the sum NaN
SumKeepNa(f, S) ==
    IF S = {} THEN 0
    ELSE LET i    == CHOOSE x \in S : TRUE
             rest == SumKeepNa(f, S \ {i})
         IN  IF f[i] = NaN \/ rest = NaN THEN NaN ELSE f[i] + rest

RECURSIVE SumSkipNa(_, _)
\* GroupBy.sum() over the positions S: skipna, a NaN addend counts as nothing
SumSkipNa(f, S) ==
    IF S = {} THEN 0
    ELSE LET i == CHOOSE x \in S : TRUE
         IN  (IF f[i] = NaN THEN 0 ELSE f[i]) + SumSkipNa(f, S \ {i})

\* the group sum the aggregator uses
GroupSum(f, S) == SumSkipNa(f, S)

RECURSIVE Ascending(_)
\* the group keys in the order groupby emits them (sorted)
Ascending(S) ==
    IF S = {} THEN <<>>
    ELSE LET lo == CHOOSE x \in S : \A y \in S : x <= y
         IN  <<lo>> \o Ascending(S \ {lo})

\* the positions of the batch that belong to group key b
GroupOf(df, b) == { i \in 1..Len(df) : df[i].bldg_id = b }

GroupKeys(df) == Ascending({ df[i].bldg_id : i \in 1..Len(df) })

\* price_func(ts_df, meta_df=meta_df) for the three pricing functions, each
\* with its default keyword arguments
PriceFunc(name, df, cache) ==
    IF name = "flat"
    THEN [raised |-> FALSE, cache |-> cache, read |-> FALSE, prices |-> price_flat(df)]
    ELSE IF name = "tou"
    THEN [raised |-> FALSE, cache |-> cache, read |-> FALSE,
          prices |-> price_tou_simple(df, TouDefaults).prices]
    ELSE price_dynamic_stub(df, cache, DefaultCsv)

\* kwh_total * price, per interval
CostPerInterval(df, p) == [i \in 1..Len(df) |-> Mul(df[i].kwh_total, p[i])]

\* apply_tariff(ts_df, price_func): one row per bldg_id
apply_tariff(df, name, cache) ==
    LET pf   == PriceFunc(name, df, cache)
        kwh  == [i \in 1..Len(df) |-> df[i].kwh_total]
        cost == CostPerInterval(df, pf.prices)
        keys == GroupKeys(df)
    IN  [raised |-> pf.raised, cache |-> pf.cache, read |-> pf.read,
         rows |-> IF pf.raised THEN <<>>
                  ELSE [k \in 1..Len(keys) |->
                          [bldg_id |-> keys[k],
                           annual_kwh |-> GroupSum(kwh, GroupOf(df, keys[k])),
                           annual_cost |-> GroupSum(cost, GroupOf(df, keys[k]))]]]

\* apply_all_tariffs(ts_df): one row per bldg_id with the three costs
apply_all_tariffs(df, cache) ==
    LET prices_flat == price_flat(df)
        prices_tou  == price_tou_simple(df, TouDefaults).prices
        dyn         == price_dynamic_stub(df, cache, DefaultCsv)
        kwh         == [i \in 1..Len(df) |-> df[i].kwh_total]
        cost_flat   == CostPerInterval(df, prices_flat)
        cost_tou    == CostPerInterval(df, prices_tou)
        keys        == GroupKeys(df)
    IN  [raised |-> dyn.raised, cache |-> dyn.cache, read |-> dyn.read,
         rows |-> IF dyn.raised THEN <<>>
                  ELSE LET cost_dynamic == CostPerInterval(df, dyn.prices)
                       IN  [k \in 1..Len(keys) |->
                              LET g == GroupOf(df, keys[k])
                              IN  [bldg_id |-> keys[k],
                                   annual_kwh |-> GroupSum(kwh, g),
                                   annual_cost_flat |-> GroupSum(cost_flat, g),
                                   annual_cost_tou |-> GroupSum(cost_tou, g),
                                   annual_cost_dynamic |-> GroupSum(cost_dynamic, g)]]]

----------------------------------------------------------------------------
(* Specification SpecAgg: the aggregator applied to a drawn batch *)

\* before the first price-source row (2017), a Monday 10:00 in the January
\* window and a Saturday 10:00 in the May window
AggStamps == { At(2017, 12, 31, 95), At(2018, 1, 1, 40), At(2018, 7, 7, 40) }

AggRows == { Row(b, u, t, k) : b \in {1, 2}, u \in {0, 1}, t \in AggStamps, k \in {1, 2} }

InitAgg ==
    /\ ts_df \in SeqsUpTo(AggRows, MaxLen)
    /\ called = "none"
    /\ prices = <<>>
    /\ TouIdle
    /\ CacheIdle
    /\ BillingIdle
    /\ WorkersIdle
    /\ DriverIdle

\* the cache and the call log after a billing call
CacheAfter(r) ==
    /\ rtp_data' = r.cache
    /\ reads' = IF r.read THEN reads + 1 ELSE reads
    /\ oplog' = oplog
    /\ rtp_files' = rtp_files

\* apply_tariff(ts_df, price_func, tariff_name=name)
ApplyTariffCall(name) ==
    /\ ~bills[name].done
    /\ LET r == apply_tariff(ts_df, name, rtp_data)
       IN  /\ bills' = [bills EXCEPT ![name] = [raised |-> r.raised, done |-> TRUE, rows |-> r.rows]]
           /\ CacheAfter(r)
    /\ called' = "apply_tariff"
    /\ UNCHANGED <<ts_df, tou_args, prices, tou_info, tou_log, rng_left, driver_vars, worker_vars>>

\* apply_all_tariffs(ts_df)
ApplyAllTariffsCall ==
    /\ ~bills["all"].done
    /\ LET r == apply_all_tariffs(ts_df, rtp_data)
       IN  /\ bills' = [bills EXCEPT !["all"] = [raised |-> r.raised, done |-> TRUE, rows |-> r.rows]]
           /\ CacheAfter(r)
    /\ called' = "apply_all_tariffs"
    /\ UNCHANGED <<ts_df, tou_args, prices, tou_info, tou_log, rng_left, driver_vars, worker_vars>>

NextAgg ==
    \/ \E name \in {"flat", "tou", "dynamic"} : ApplyTariffCall(name)
    \/ ApplyAllTariffsCall

SpecAgg == InitAgg /\ [][NextAgg]_vars

\* the price series of a policy on the batch, as the pricing function gives it
PolicyPrices(name) == PriceFunc(name, ts_df, rtp_data).prices

\* the cost column of an apply_all_tariffs row for a policy
CostOf(row, name) ==
    IF name = "flat" THEN row.annual_cost_flat
    ELSE IF name = "tou" THEN row.annual_cost_tou
    ELSE row.annual_cost_dynamic

BatchIds == { ts_df[i].bldg_id : i \in 1..Len(ts_df) }

\* C2: every building id b of the batch has one output row, from apply_tariff
\* and from apply_all_tariffs alike, whose annual_kwh is the sum of kwh_total
\* over all records of b whatever their upgrade id and whose annual_cost for
\* a policy is the sum over those records of kwh_total * price under that
\* policy; the two functions agree on annual_kwh and on each policy's cost.
AggregatorAdditivity ==
    /\ \A name \in {"flat", "tou", "dynamic"} :
         bills[name].done =>
            /\ ~bills[name].raised
            /\ { bills[name].rows[k].bldg_id : k \in 1..Len(bills[name].rows) } = BatchIds
            /\ Len(bills[name].rows) = Cardinality(BatchIds)
            /\ \A k \in 1..Len(bills[name].rows) :
                 LET row == bills[name].rows[k]
                     g   == { i \in 1..Len(ts_df) : ts_df[i].bldg_id = row.bldg_id }
                 IN  /\ row.annual_kwh = SumKeepNa([i \in 1..Len(ts_df) |-> ts_df[i].kwh_total], g)
                     /\ row.annual_cost =
                            SumKeepNa([i \in 1..Len(ts_df) |->
                                          Mul(ts_df[i].kwh_total, PolicyPrices(name)[i])], g)
    /\ bills["all"].done =>
         /\ ~bills["all"].raised
         /\ { bills["all"].rows[k].bldg_id : k \in 1..Len(bills["all"].rows) } = BatchIds
         /\ Len(bills["all"].rows) = Cardinality(BatchIds)
         /\ \A k \in 1..Len(bills["all"].rows) :
              LET row == bills["all"].rows[k]
                  g   == { i \in 1..Len(ts_df) : ts_df[i].bldg_id = row.bldg_id }
              IN  /\ row.annual_kwh = SumKeepNa([i \in 1..Len(ts_df) |-> ts_df[i].kwh_total], g)
                  /\ \A name \in {"flat", "tou", "dynamic"} :
                       /\ CostOf(row, name) =
                            SumKeepNa([i \in 1..Len(ts_df) |->
                                          Mul(ts_df[i].kwh_total, PolicyPrices(name)[i])], g)
                       /\ bills[name].done =>
                            \E j \in 1..Len(bills[name].rows) :
                               /\ bills[name].rows[j].bldg_id = row.bldg_id
                               /\ bills[name].rows[j].annual_kwh = row.annual_kwh
                               /\ bills[name].rows[j].annual_cost = CostOf(row, name)

\* every record of the batch has a defined price under every policy
AllPricesDefined ==
    \A name \in {"flat", "tou", "dynamic"} :
        \A i \in 1..Len(ts_df) : PolicyPrices(name)[i] # NaN

\* the additivity of C2 on the batches in which no price is undefined
AdditivityOnDefinedPrices == AllPricesDefined => AggregatorAdditivity

----------------------------------------------------------------------------
(* Specification SpecBatch: the three pricing functions applied to a batch
   that holds the records of two buildings one after the other, as
   pd.concat in load_timeseries_for_buildings lays them out *)

\* first instants of a building's records: Monday 10:00, Monday 19:30 (the
\* run leaves the default peak window), Saturday 10:00, and 2017-12-31 23:30
\* (before the first row of the price source)
BldgStarts == { At(2018, 1, 1, 40), At(2018, 1, 1, 78), At(2018, 1, 6, 40), At(2017, 12, 31, 94) }

\* len consecutive 15-minute records of building b from t0 on
BldgRun(b, t0, len) == [i \in 1..len |-> Row(b, 0, t0 + i - 1, 1)]

\* building 1 with at least one record, then building 2, possibly absent
TwoBldgBatches ==
    { BldgRun(1, t1, l1) \o BldgRun(2, t2, l2) :
        t1 \in BldgStarts, l1 \in 1..MaxBldgLen, t2 \in BldgStarts, l2 \in 0..MaxBldgLen }

InitBatch ==
    /\ ts_df \in TwoBldgBatches
    /\ tou_args \in TouArgs
    /\ called = "none"
    /\ prices = <<>>
    /\ tou_info = <<>>
    /\ tou_log = <<>>
    /\ rng_left = NaN
    /\ CacheIdle
    /\ BillingIdle
    /\ WorkersIdle
    /\ DriverIdle

NextBatch ==
    \/ PriceFlatCall
    \/ PriceTouCall
    \/ PriceDynamicCall

SpecBatch == InitBatch /\ [][NextBatch]_vars

\* the records of building b, in batch order
RecordsOf(b) == SelectSeq(ts_df, LAMBDA r : r.bldg_id = b)

\* the prices the last call gave to the records of building b, in batch order
PricesOf(b) ==
    LET pos == SelectSeq([i \in 1..Len(ts_df) |-> i], LAMBDA i : ts_df[i].bldg_id = b)
    IN  [k \in 1..Len(pos) |-> prices[pos[k]]]

\* the same pricing function applied to the records of building b alone,
\* with the same arguments and the same cache
PricedAlone(b) ==
    IF called = "price_flat" THEN price_flat(RecordsOf(b))
    ELSE IF called = "price_tou_simple" THEN price_tou_simple(RecordsOf(b), tou_args).prices
    ELSE price_dynamic_stub(RecordsOf(b), rtp_data, DefaultCsv).prices

\* C23: under each of the three policies the prices given to a building's
\* records inside a batch with another building's records are the prices the
\* same function gives to that building's records alone, with the same seed
\* and parameters.
BatchIndependence ==
    called \in {"price_flat", "price_tou_simple", "price_dynamic_stub"} =>
        \A b \in BatchIds : PricesOf(b) = PricedAlone(b)

\* what does hold: price_flat and price_dynamic_stub price each record from
\* its own timestamp, so the batch around it does not matter
BatchIndependenceFlatDynamic ==
    called \in {"price_flat", "price_dynamic_stub"} =>
        \A b \in BatchIds : PricesOf(b) = PricedAlone(b)

\* the base peak / off-peak part of the time-of-use price is independent of
\* the batch as well: only the conservation blocks differ
BatchIndependenceTouBase ==
    called = "price_tou_simple" =>
        \A b \in BatchIds :
            \A k \in 1..Len(PricesOf(b)) :
                (PricesOf(b)[k] = offpeak_rate) <=> (PricedAlone(b)[k] = offpeak_rate)

----------------------------------------------------------------------------
(* load_timeseries_for_buildings and compute_bills_chunked *)

\* the parameters load_timeseries_for_buildings declares
LoaderParams == {"ts_index", "building_ids", "n_files"}

\* the keywords of the call in compute_bills_chunked:
\* load_timeseries_for_buildings(sub_idx, n_files=None, verbose=verbose)
DriverCallKeywords == {"n_files", "verbose"}

\* a file that pq.read_table cannot open
MissingFile == <<[timestamp |-> NaN, elec |-> <<>>]>>

\* the end-use columns summed into kwh_total: both columns of a file row
elec_cols == {1, 2}

RECURSIVE Concat(_)
\* pd.concat(frames, ignore_index=True)
Concat(frames) == IF frames = <<>> THEN <<>> ELSE Head(frames) \o Concat(Tail(frames))

\* one file of the index read and tagged: df["bldg_id"], df["upgrade_id"]
ReadTagged(entry) ==
    LET table == parquet[entry.file_path]
    IN  [i \in 1..Len(table) |->
            [bldg_id |-> entry.building_id, upgrade_id |-> entry.upgrade_id,
             timestamp |-> table[i].timestamp, elec |-> table[i].elec]]

\* load_timeseries_for_buildings called with the given keywords; building_ids
\* and n_files are None, so the subset is the whole of ts_index
load_timeseries_for_buildings(sub_idx, keywords) ==
    IF ~(keywords \subseteq LoaderParams)
    THEN [error |-> "TypeError", rows |-> <<>>]
    ELSE IF \E k \in 1..Len(sub_idx) : parquet[sub_idx[k].file_path] = MissingFile
    THEN [error |-> "FileNotFoundError", rows |-> <<>>]
    ELSE [error |-> "", rows |-> Concat([k \in 1..Len(sub_idx) |-> ReadTagged(sub_idx[k])])]

\* ts_chunk["kwh_total"] = ts_chunk[elec_cols].sum(axis=1)
WithKwhTotal(ts_chunk) ==
    [i \in 1..Len(ts_chunk) |->
        Row(ts_chunk[i].bldg_id, ts_chunk[i].upgrade_id, ts_chunk[i].timestamp,
            SumSkipNa(ts_chunk[i].elec, elec_cols))]

\* a run that was not made
NotRun == [done |-> FALSE, error |-> "", rows |-> <<>>]

\* the run ends: it returned rows or raised error
Finished(error, rows) == [done |-> TRUE, error |-> error, rows |-> rows]

----------------------------------------------------------------------------
(* Specification SpecDriver: compute_bills_chunked run with several chunk
   sizes on one drawn index *)

ChunkSizes == {1, 2, 7}

PathOf(b, u) == <<b, u>>

IndexEntries ==
    { [building_id |-> b, upgrade_id |-> u, file_path |-> PathOf(b, u)] : b \in {1, 2}, u \in {0, 1} }

\* a file with no interval records, and one with a Monday 10:00 record
NoRows == <<>>
SomeRows == <<[timestamp |-> At(2018, 1, 1, 40), elec |-> <<1, 2>>]>>

InitDriver ==
    /\ ts_index \in SeqsUpTo(IndexEntries, MaxIndex)
    /\ parquet \in [{ PathOf(b, u) : b \in {1, 2}, u \in {0, 1} } -> {NoRows, SomeRows, MissingFile}]
    /\ chunk_size = 0
    /\ pc = "idle"
    /\ start = 0
    /\ all_chunks = <<>>
    /\ runs = [c \in ChunkSizes |-> NotRun]
    /\ loads = [c \in ChunkSizes |-> <<>>]
    /\ PricingIdle
    /\ CacheIdle
    /\ BillingIdle
    /\ WorkersIdle

\* compute_bills_chunked(ts_index, elec_cols, chunk_size=c) is entered
DriverCall(c) ==
    /\ pc = "idle"
    /\ ~runs[c].done
    /\ chunk_size' = c
    /\ start' = 0
    /\ all_chunks' = <<>>
    /\ pc' = "loop"
    /\ UNCHANGED <<ts_index, parquet, runs, loads, pricing_vars, cache_vars, billing_vars, worker_vars>>

\* the run ends by an exception: its locals, all_chunks included, are gone
Raise(error) ==
    /\ runs' = [runs EXCEPT ![chunk_size] = Finished(error, <<>>)]
    /\ pc' = "idle"
    /\ all_chunks' = <<>>
    /\ start' = 0

\* one iteration of the loop  for start in range(0, n, chunk_size)
ChunkStep ==
    /\ pc = "loop"
    /\ start < Len(ts_index)
    /\ LET end      == Min(start + chunk_size, Len(ts_index))
           sub_idx  == SubSeq(ts_index, start + 1, end)
           ts_chunk == load_timeseries_for_buildings(sub_idx, DriverCallKeywords)
       IN  IF ts_chunk.error # ""
           THEN Raise(ts_chunk.error) /\ UNCHANGED cache_vars
           ELSE IF ts_chunk.rows = <<>>
           THEN /\ start' = start + chunk_size
                /\ UNCHANGED <<all_chunks, pc, runs, cache_vars>>
           ELSE LET bills_chunk == apply_all_tariffs(WithKwhTotal(ts_chunk.rows), rtp_data)
                IN  /\ CacheAfter(bills_chunk)
                    /\ IF bills_chunk.raised
                       THEN Raise("FileNotFoundError")
                       ELSE /\ all_chunks' = Append(all_chunks, bills_chunk.rows)
                            /\ start' = start + chunk_size
                            /\ UNCHANGED <<pc, runs>>
    /\ loads' = [loads EXCEPT ![chunk_size] =
                    Append(@, SubSeq(ts_index, start + 1, Min(start + chunk_size, Len(ts_index))))]
    /\ UNCHANGED <<ts_index, parquet, chunk_size, pricing_vars, billing_vars, worker_vars>>

\* the loop is over: pd.DataFrame() when no chunk produced rows, else
\* pd.concat(all_chunks, ignore_index=True)
DriverReturn ==
    /\ pc = "loop"
    /\ start >= Len(ts_index)
    /\ runs' = [runs EXCEPT ![chunk_size] = Finished("", Concat(all_chunks))]
    /\ pc' = "idle"
    /\ all_chunks' = <<>>
    /\ start' = 0
    /\ UNCHANGED <<ts_index, parquet, chunk_size, loads, pricing_vars, cache_vars, billing_vars, worker_vars>>

NextDriver ==
    \/ \E c \in ChunkSizes : DriverCall(c)
    \/ ChunkStep
    \/ DriverReturn

SpecDriver == InitDriver /\ [][NextDriver]_vars

FinishedRuns == { c \in ChunkSizes : runs[c].done }

RowSet(run) == { run.rows[k] : k \in 1..Len(run.rows) }

IndexIds == { ts_index[k].building_id : k \in 1..Len(ts_index) }

\* C1: compute_bills_chunked run on the same index with chunk_size 1, with a
\* larger chunk_size and with all entries at once yields the same set of
\* (bldg_id, annual_kwh, annual_cost_flat, annual_cost_tou,
\* annual_cost_dynamic) rows, whatever the row order.
ChunkedEquivalence ==
    \A c, d \in FinishedRuns :
        /\ runs[c].error = ""
        /\ RowSet(runs[c]) = RowSet(runs[d])

\* C7: the result of compute_bills_chunked has exactly one row per distinct
\* building id of the index, for every index and every chunk_size.
OneRowPerBuilding ==
    \A c \in FinishedRuns :
        /\ runs[c].error = ""
        /\ { r.bldg_id : r \in RowSet(runs[c]) } = IndexIds
        /\ Len(runs[c].rows) = Cardinality(IndexIds)

\* C8: on an empty index, or an index none of whose files holds a record,
\* compute_bills_chunked returns an empty result and raises no error.
EmptySelection ==
    \A c \in FinishedRuns :
        (\A k \in 1..Len(ts_index) : parquet[ts_index[k].file_path] = NoRows) =>
            /\ runs[c].error = ""
            /\ runs[c].rows = <<>>

\* range(0, n, chunk_size): the 0-based starts of the slices of the index
ChunkStarts(c) == { s \in 0..(Len(ts_index) - 1) : s % c = 0 }

\* ts_index.iloc[start:end] with end = min(start + chunk_size, n)
SliceAt(c, s) == SubSeq(ts_index, s + 1, Min(s + c, Len(ts_index)))

\* a timeseries file of the slice cannot be opened
HasMissingFile(sub_idx) ==
    \E k \in 1..Len(sub_idx) : parquet[sub_idx[k].file_path] = MissingFile

\* the building ids of the slice whose files hold records
IdsWithRecords(sub_idx) ==
    { sub_idx[k].building_id :
        k \in { j \in 1..Len(sub_idx) : parquet[sub_idx[j].file_path] = SomeRows } }

\* C13: when a timeseries file of chunk k is missing and the files of the
\* chunks before it are readable, the run leaves the caller with the bill
\* rows of the buildings of chunks 1..k-1.
PartialResultsSurvive ==
    \A c \in FinishedRuns :
        \A f \in ChunkStarts(c) :
            ( /\ HasMissingFile(SliceAt(c, f))
              /\ \A s \in ChunkStarts(c) : s < f => ~HasMissingFile(SliceAt(c, s)) )
            => \A s \in ChunkStarts(c) :
                   s < f => IdsWithRecords(SliceAt(c, s)) \subseteq
                                { r.bldg_id : r \in RowSet(runs[c]) }

\* the slices of the index in increasing order of start
SlicesInOrder(c) ==
    [j \in 1..Cardinality(ChunkStarts(c)) |-> SliceAt(c, (j - 1) * c)]

\* C15: a finished run of compute_bills_chunked has handed the loader the
\* slices [0,c), [c,2c), ..., [kc,n) of the index, each exactly once and in
\* increasing order; the slices keep the index order, cover every entry once
\* and all but the last hold exactly c entries.
ChunkPartition ==
    \A c \in FinishedRuns :
        /\ loads[c] = SlicesInOrder(c)
        /\ Concat(loads[c]) = ts_index
        /\ \A j \in 1..(Len(loads[c]) - 1) : Len(loads[c][j]) = c

\* every call the loader received was for the slice at the loop variable:
\* the calls made are a prefix of the slices in order
LoadsArePrefix ==
    \A c \in ChunkSizes :
        /\ Len(loads[c]) <= Cardinality(ChunkStarts(c))
        /\ loads[c] = SubSeq(SlicesInOrder(c), 1, Len(loads[c]))

\* every file of the index can be opened
AllFilesReadable == ~HasMissingFile(ts_index)

\* C21: compute_bills_chunked reads the price source at most once; a run
\* that starts on the empty cache over an index whose files are all readable
\* has read it exactly once when some file of the index holds a record and
\* not at all when none does.
OneLoadPerRun ==
    /\ reads <= 1
    /\ (FinishedRuns # {} /\ AllFilesReadable) =>
           reads = IF IdsWithRecords(ts_index) # {} THEN 1 ELSE 0

\* what apply_all_tariffs, the one reader of the price source inside the
\* loop, does across calls: the first call that prices the dynamic tariff
\* reads the source and later calls reuse the cached curve
BillingCallsShareLoad ==
    /\ reads <= 1
    /\ (bills["dynamic"].done \/ bills["all"].done) => reads = 1
    /\ (bills["dynamic"].done /\ bills["all"].done) =>
           (~bills["dynamic"].raised /\ ~bills["all"].raised)

\* every file of the index can be opened and holds records
AllFilesHaveRecords ==
    \A k \in 1..Len(ts_index) : parquet[ts_index[k].file_path] = SomeRows

\* C24: for a non-empty index whose files all exist and hold records, with
\* the price source available, every call compute_bills_chunked makes to
\* load_timeseries_for_buildings is accepted, and the run returns a
\* non-empty result without raising.
RunCompletes ==
    \A c \in FinishedRuns :
        (ts_index # <<>> /\ AllFilesHaveRecords /\ rtp_files[DefaultCsv] # Missing) =>
            /\ \A j \in 1..Len(loads[c]) :
                 load_timeseries_for_buildings(loads[c][j], DriverCallKeywords).error = ""
            /\ runs[c].error = ""
            /\ runs[c].rows # <<>>

\* what a run does: on a non-empty index the first call of the loader raises
\* TypeError and the run ends with it, having made that one call; only the
\* empty index returns
RunsEndInTypeError ==
    \A c \in FinishedRuns :
        /\ runs[c].rows = <<>>
        /\ IF ts_index = <<>>
           THEN runs[c].error = "" /\ loads[c] = <<>>
           ELSE runs[c].error = "TypeError" /\ Len(loads[c]) = 1

----------------------------------------------------------------------------
(* Specification SpecWorkers: worker threads calling get_rtp_data and clear
   on the one module-level _price_cache, interleaved between the statements
   of get_rtp_data.  There is no lock in PriceDataCache. *)

Workers == 1..NumWorkers

\* the locals of a get_rtp_data call: rtp_df, whether this call read the
\* source, and whether a clear() ran while the call was in progress
NoLocals == [rtp_df |-> None, read |-> FALSE, interrupted |-> FALSE]

\* nothing returned yet
NoReturn == [returned |-> FALSE, value |-> None, read |-> FALSE, interrupted |-> FALSE]

\* the branch is taken whatever the cache holds
CheckAlwaysLoad(cache) == "read"

\* if self._rtp_data is None: go on to read the source, else to the return
EmptinessCheck(cache) == IF CacheEmpty(cache) THEN "read" ELSE "return"

\* the assignment is left out: the attribute keeps its value
StoreSkipped(cache, rtp_df) == cache

\* self._rtp_data = rtp_df
Store(cache, rtp_df) == rtp_df

\* the price sources on disk in this specification: both readable
ReadableFiles ==
    [c \in CsvNames |-> IF c = DefaultCsv
                        THEN <<[timestamp |-> At(2018, 1, 1, 0), RT_LMP_kWh |-> 3000],
                               [timestamp |-> At(2018, 1, 1, 4), RT_LMP_kWh |-> 5000]>>
                        ELSE OtherTable]

\* the workers start on an empty cache, or on one the main thread populated
\* by a get_rtp_data() of its own before starting them
InitWorkers ==
    /\ rtp_files = ReadableFiles
    /\ \E prepopulate \in BOOLEAN :
         IF prepopulate
         THEN LET g == get_rtp_data(None, DefaultCsv)
              IN  /\ rtp_data = g.cache
                  /\ reads = 1
                  /\ oplog = <<Logged("get", DefaultCsv, g.read, g.raised)>>
         ELSE /\ rtp_data = None
              /\ reads = 0
              /\ oplog = <<>>
    /\ wpc = [w \in Workers |-> "idle"]
    /\ wloc = [w \in Workers |-> NoLocals]
    /\ wret = [w \in Workers |-> NoReturn]
    /\ PricingIdle
    /\ BillingIdle
    /\ DriverIdle

\* operations started and not yet logged
InProgress == Cardinality({ w \in Workers : wpc[w] # "idle" })

\* line 40: the worker enters get_rtp_data() and tests self._rtp_data
GetCheck(w) ==
    /\ wpc[w] = "idle"
    /\ Len(oplog) + InProgress < MaxWorkerOps
    /\ wpc' = [wpc EXCEPT ![w] = EmptinessCheck(rtp_data)]
    /\ wloc' = [wloc EXCEPT ![w] = NoLocals]
    /\ UNCHANGED <<cache_vars, wret, pricing_vars, billing_vars, driver_vars>>

\* lines 43-44: pd.read_csv(rtp_csv) and the resampling, into the local rtp_df
GetRead(w) ==
    /\ wpc[w] = "read"
    /\ wloc' = [wloc EXCEPT ![w].rtp_df = [loaded |-> TRUE, curve |-> Resample(rtp_files[DefaultCsv])],
                            ![w].read = TRUE]
    /\ reads' = reads + 1
    /\ wpc' = [wpc EXCEPT ![w] = "store"]
    /\ UNCHANGED <<rtp_files, rtp_data, oplog, wret, pricing_vars, billing_vars, driver_vars>>

\* line 45: self._rtp_data = rtp_df
GetStore(w) ==
    /\ wpc[w] = "store"
    /\ rtp_data' = Store(rtp_data, wloc[w].rtp_df)
    /\ wpc' = [wpc EXCEPT ![w] = "return"]
    /\ UNCHANGED <<rtp_files, reads, oplog, wloc, wret, pricing_vars, billing_vars, driver_vars>>

\* line 48: return self._rtp_data, the attribute as it is now
GetReturn(w) ==
    /\ wpc[w] = "return"
    /\ wret' = [wret EXCEPT ![w] = [returned |-> TRUE, value |-> rtp_data,
                                    read |-> wloc[w].read,
                                    interrupted |-> wloc[w].interrupted]]
    /\ oplog' = Append(oplog, Logged("get", DefaultCsv, wloc[w].read, FALSE))
    /\ wpc' = [wpc EXCEPT ![w] = "idle"]
    /\ UNCHANGED <<rtp_files, rtp_data, reads, wloc, pricing_vars, billing_vars, driver_vars>>

\* line 52: a worker calls clear(); every get in progress is marked
WorkerClear(w) ==
    /\ wpc[w] = "idle"
    /\ Len(oplog) + InProgress < MaxWorkerOps
    /\ rtp_data' = clear(rtp_data)
    /\ wloc' = [v \in Workers |->
                  IF wpc[v] # "idle" THEN [wloc[v] EXCEPT !.interrupted = TRUE] ELSE wloc[v]]
    /\ oplog' = Append(oplog, Logged("clear", "", FALSE, FALSE))
    /\ UNCHANGED <<rtp_files, reads, wpc, wret, pricing_vars, billing_vars, driver_vars>>

NextWorkers ==
    \E w \in Workers :
        \/ GetCheck(w)
        \/ GetRead(w)
        \/ GetStore(w)
        \/ GetReturn(w)
        \/ WorkerClear(w)

SpecWorkers == InitWorkers /\ [][NextWorkers]_vars

\* no worker stands between its emptiness check and its store
NoLoadInFlight == \A w \in Workers : wpc[w] \notin {"read", "store"}

NoClearLogged == \A k \in 1..Len(oplog) : oplog[k].op # "clear"

\* C19: once the cache is populated and no load is in flight (as when it is
\* populated before the workers start), every step of a concurrent get is
\* read-only: unless a clear() intervenes the source is not read again, the
\* cached curve is not replaced and no worker starts a load.  On an empty
\* cache nothing prevents two workers from both reading the source.
UnguardedFirstUse ==
    [][ (~CacheEmpty(rtp_data) /\ NoLoadInFlight /\ ~CacheEmpty(rtp_data'))
            => (reads' = reads /\ rtp_data' = rtp_data /\ NoLoadInFlight') ]_vars

\* both workers saw the cache empty and both read the source, with no clear
\* anywhere: two loads for one fill
UnguardedFirstUseWitness ==
    /\ NoClearLogged
    /\ reads = 2
    /\ \A w \in {1, 2} : wloc[w].read
    /\ ~CacheEmpty(rtp_data)

\* C20: a get_rtp_data whose load succeeds returns either the curve of the
\* source or, only when a clear() ran while the call was in progress, the
\* cleared empty value; a call during which no clear() ran (sequential use)
\* returns the populated curve.
UnsynchronizedClear ==
    \A w \in Workers :
        wret[w].returned =>
            /\ ~wret[w].interrupted => ~CacheEmpty(wret[w].value)
            /\ ~CacheEmpty(wret[w].value) =>
                   wret[w].value.curve = Resample(rtp_files[DefaultCsv])

\* a get that read the source itself, and stored the curve, returned the
\* cleared empty value
UnsynchronizedClearWitness ==
    \E w \in Workers :
        /\ wret[w].returned
        /\ wret[w].read
        /\ wret[w].interrupted
        /\ CacheEmpty(wret[w].value)

====
